---- MODULE Spec2Model ----
(***************************************************************************)
(* A model of the SaaS dashboard repository: the synthetic data generator  *)
(* (data_gen.py) and the dashboard renderer (dashboard.py).                *)
(*                                                                         *)
(* The program is sequential.  Each group of variables below belongs to    *)
(* one part of the program, and each specification (SpecMain, SpecKpi,     *)
(* ...) exercises one part while the other groups stay at their initial    *)
(* values.                                                                 *)
(***************************************************************************)
EXTENDS Integers, Sequences, FiniteSets, TLC

VARIABLES
    fs,               \* the paths that exist on disk (data files, output dir, output file)
    pc,               \* position of the renderer's main(); calls made so far to the generator
    stdout,           \* lines printed by the current renderer run
    calls,            \* functions called by the current renderer run, in order
    writes,           \* number of times the current run wrote output/dashboard.html
    drifted,          \* the data files on disk whose content read_csv accepts but a builder trips on
    html,             \* content of output/dashboard.html, None without the file
    html0,            \* html as it was when the current renderer run started
    metrics,          \* KPI table given to the KPI builders
    indicator_figs,   \* result of create_kpi_indicators
    cards_html,       \* result of generate_kpi_cards_html
    arr,              \* ARR movement table given to create_arr_waterfall
    waterfall,        \* result of create_arr_waterfall
    funnel,           \* funnel edge table given to create_funnel_sankey
    sankey,           \* result of create_funnel_sankey
    channel,          \* channel table given to create_channel_acquisition_chart
    area_fig,         \* result of create_channel_acquisition_chart
    rng,              \* state of numpy's global random number generator
    data,             \* tables written by the generator, by file name
    gen               \* the last table produced by a generator function on free draws

mainVars == <<fs, pc, stdout, calls, writes, drifted, html, html0>>
kpiVars == <<metrics, indicator_figs, cards_html>>
arrVars == <<arr, waterfall>>
funnelVars == <<funnel, sankey>>
channelVars == <<channel, area_fig>>
genVars == <<rng, data, gen>>
notMain == <<kpiVars, arrVars, funnelVars, channelVars, genVars>>
notKpi == <<mainVars, arrVars, funnelVars, channelVars, genVars>>
notArr == <<mainVars, kpiVars, funnelVars, channelVars, genVars>>
notFunnel == <<mainVars, kpiVars, arrVars, channelVars, genVars>>
notChannel == <<mainVars, kpiVars, arrVars, funnelVars, genVars>>
notGen == <<mainVars, kpiVars, arrVars, funnelVars, channelVars>>
vars == <<fs, pc, stdout, calls, writes, drifted, html, html0, metrics, indicator_figs, cards_html,
          arr, waterfall, funnel, sankey, channel, area_fig, rng, data, gen>>

\* A value that may be absent (Python's None): <<>> or <<v>>.
None == <<>>
Some(v) == <<v>>
Get(o) == o[1]

\* ---------------------------------------------------------------- helpers

RECURSIVE SumSeq(_)
SumSeq(s) == IF s = <<>> THEN 0 ELSE Head(s) + SumSeq(Tail(s))

Range(s) == {s[i] : i \in DOMAIN s}

Abs(x) == IF x < 0 THEN -x ELSE x

StartsWith(text, head) == Len(text) >= Len(head) /\ SubSeq(text, 1, Len(head)) = head

\* ------------------------------------------------- initial values per group

MainInitIdle ==
    /\ fs = {}
    /\ pc = "idle"
    /\ stdout = <<>>
    /\ calls = <<>>
    /\ writes = 0
    /\ drifted = {}
    /\ html = None
    /\ html0 = None

KpiInitIdle ==
    /\ metrics = <<>>
    /\ indicator_figs = None
    /\ cards_html = None

ArrInitIdle ==
    /\ arr = <<>>
    /\ waterfall = None

FunnelInitIdle ==
    /\ funnel = <<>>
    /\ sankey = None

ChannelInitIdle ==
    /\ channel = [date |-> <<>>, columns |-> <<>>]
    /\ area_fig = None

GenInitIdle ==
    /\ rng = 0
    /\ data = <<>>
    /\ gen = None

\* ================================================================ renderer
\* dashboard.py: load_data, ensure_output_directory, create_dashboard_html, main

\* The six input files, in the order load_data reads them.
DataFiles ==
    << "data/metrics.csv", "data/channel_acquisition.csv", "data/arr_movement.csv",
       "data/funnel_data.csv", "data/cohort_data.csv", "data/additional_metrics.csv" >>

OutputDir == "output"
OutputFile == "output/dashboard.html"

RunGeneratorMsg == "Please run data_gen.py first to generate the data files."

\* The chart builders create_dashboard_html calls, in call order, followed by
\* the KPI card HTML built inside the page template.
Builders ==
    << "create_kpi_indicators", "create_channel_acquisition_chart",
       "create_arr_waterfall", "create_funnel_sankey", "create_cohort_heatmap",
       "generate_kpi_cards_html" >>

\* load_data: pd.read_csv on each file in order; the first missing file raises
\* FileNotFoundError, which is caught: two lines are printed and None returned.
FirstMissing(present) ==
    LET miss == {i \in DOMAIN DataFiles : DataFiles[i] \notin present}
    IN  IF miss = {} THEN 0 ELSE CHOOSE i \in miss : \A j \in miss : i <= j

\* A load_data that looks for data/metrics.csv only.
load_data_first_only(present) ==
    IF DataFiles[1] \in present
    THEN [ret |-> Some("tables"), out |-> <<>>]
    ELSE [ret |-> None,
          out |-> << "Error loading data: " \o DataFiles[1], RunGeneratorMsg >>]

load_data(present) ==
    LET m == FirstMissing(present)
    IN  IF m = 0
        THEN [ret |-> Some("tables"), out |-> <<>>]
        ELSE [ret |-> None,
              out |-> << "Error loading data: " \o DataFiles[m], RunGeneratorMsg >>]

\* ensure_output_directory: os.makedirs("output") unless it exists.
ensure_output_directory(present) == present \cup {OutputDir}

\* The table each builder is given, by builder: lines 288-292 and 409.  The
\* additional-metrics table is given to none.
BuilderInputs ==
    << "data/metrics.csv", "data/channel_acquisition.csv", "data/arr_movement.csv",
       "data/funnel_data.csv", "data/cohort_data.csv", "data/metrics.csv" >>

\* The page create_dashboard_html builds, lines 295-440.
DashboardPage == "<!DOCTYPE html>"

\* create_dashboard_html that opens the output file before it builds.
create_dashboard_html_open_first == <<"open_output">> \o Builders \o <<"write_output">>

\* create_dashboard_html, lines 288-443, as the steps it takes: the builders,
\* then open(output, "w"), then f.write.
create_dashboard_html_steps == Builders \o <<"open_output", "write_output">>

\* The step create_dashboard_html is about to take; calls holds load_data,
\* ensure_output_directory and the steps taken.
NextStep ==
    IF Len(calls) - 2 < Len(create_dashboard_html_steps)
    THEN create_dashboard_html_steps[Len(calls) - 1]
    ELSE "return"

\* The input of builder b is schema-drifted: the builder raises (KeyError on a
\* column that is gone, AttributeError on a date that is text, ...).
BuilderFails(b) ==
    \E k \in DOMAIN Builders : Builders[k] = b /\ BuilderInputs[k] \in drifted

\* The environment between runs: the generator (or the user) creates or removes
\* a data file, or removes the output.  A data file created by hand may be
\* schema-drifted; only content that pd.read_csv loads is considered.
EnvCreate ==
    /\ pc = "idle"
    /\ \E i \in DOMAIN DataFiles :
          /\ DataFiles[i] \notin fs
          /\ fs' = fs \cup {DataFiles[i]}
          /\ \/ drifted' = drifted
             \/ drifted' = drifted \cup {DataFiles[i]}
    /\ UNCHANGED <<pc, stdout, calls, writes, html, html0, notMain>>

EnvRemove ==
    /\ pc = "idle"
    /\ \E p \in fs :
          /\ p = OutputDir => OutputFile \notin fs
          /\ fs' = fs \ {p}
          /\ drifted' = drifted \ {p}
          /\ html' = IF p = OutputFile THEN None ELSE html
    /\ UNCHANGED <<pc, stdout, calls, writes, html0, notMain>>

\* main(), lines 477-482: banner, load_data, return when it gave None.
MainLoad ==
    /\ pc = "idle"
    /\ LET r == load_data(fs)
       IN  /\ stdout' = <<"Creating SaaS Business Dashboard...">> \o r.out
           /\ calls' = <<"load_data">>
           /\ pc' = IF r.ret = None THEN "returned" ELSE "loaded"
    /\ writes' = 0
    /\ html0' = html
    /\ UNCHANGED <<fs, drifted, html, notMain>>

\* main(), line 487.
MainEnsureOutput ==
    /\ pc = "loaded"
    /\ fs' = ensure_output_directory(fs)
    /\ calls' = Append(calls, "ensure_output_directory")
    /\ pc' = "build"
    /\ UNCHANGED <<stdout, writes, drifted, html, html0, notMain>>

\* create_dashboard_html, lines 288-292 and the template's call of
\* generate_kpi_cards_html: one builder per step, in order.  Nothing catches
\* what a builder raises: it leaves create_dashboard_html and main.
MainBuild ==
    /\ pc = "build"
    /\ NextStep \in Range(Builders)
    /\ calls' = Append(calls, NextStep)
    /\ pc' = IF BuilderFails(NextStep) THEN "raised" ELSE "build"
    /\ UNCHANGED <<fs, stdout, writes, drifted, html, html0, notMain>>

\* create_dashboard_html, line 442: open(output, "w") creates or truncates.
MainOpen ==
    /\ pc = "build"
    /\ NextStep = "open_output"
    /\ fs' = fs \cup {OutputFile}
    /\ html' = Some("")
    /\ calls' = Append(calls, "open_output")
    /\ UNCHANGED <<pc, stdout, writes, drifted, html0, notMain>>

\* create_dashboard_html, line 443: f.write(dashboard_html), then the return.
MainWrite ==
    /\ pc = "build"
    /\ NextStep = "write_output"
    /\ html' = Some(Get(html) \o DashboardPage)
    /\ writes' = writes + 1
    /\ calls' = Append(calls, "write_output")
    /\ pc' = "written"
    /\ UNCHANGED <<fs, stdout, drifted, html0, notMain>>

\* main(), lines 492-493.
MainFinish ==
    /\ pc = "written"
    /\ stdout' = stdout \o << "Dashboard created successfully!",
                              "Open 'output/dashboard.html' in your web browser to view the dashboard." >>
    /\ pc' = "returned"
    /\ UNCHANGED <<fs, calls, writes, drifted, html, html0, notMain>>

\* The process has ended, by return or by an exception that left main; a
\* later run starts from "idle".
MainExit ==
    /\ pc \in {"returned", "raised"}
    /\ pc' = "idle"
    /\ UNCHANGED <<fs, stdout, calls, writes, drifted, html, html0, notMain>>

MainNext ==
    \/ EnvCreate
    \/ EnvRemove
    \/ MainLoad
    \/ MainEnsureOutput
    \/ MainBuild
    \/ MainOpen
    \/ MainWrite
    \/ MainFinish
    \/ MainExit

MainInit ==
    /\ MainInitIdle /\ KpiInitIdle /\ ArrInitIdle /\ FunnelInitIdle /\ ChannelInitIdle /\ GenInitIdle

SpecMain == MainInit /\ [][MainNext]_vars

\* C1: when main() runs with any of the six input files missing, load_data
\* prints the instruction to run data_gen.py first and returns None, and main
\* returns without creating the output directory, calling a chart builder or
\* writing output/dashboard.html.
MissingInput == \E i \in DOMAIN DataFiles : DataFiles[i] \notin fs

MissingInputStopsMain ==
    [][ /\ (MainLoad /\ MissingInput) =>
              /\ pc' = "returned"
              /\ \E k \in DOMAIN stdout' : stdout'[k] = RunGeneratorMsg
              /\ calls' = <<"load_data">>
              /\ writes' = 0
              /\ fs' = fs
        /\ (pc # "idle" /\ MissingInput) =>
              /\ pc' = "idle"
              /\ UNCHANGED <<fs, stdout, calls, writes>> ]_vars

MissingInputWitness ==
    /\ pc = "returned"
    /\ MissingInput
    /\ Cardinality(fs) = 5
    /\ RunGeneratorMsg \in Range(stdout)
    /\ OutputDir \notin fs

\* ============================================================== text forms
\* Python's number formatting, on numbers held as integers in a fixed unit.

DigitStr == <<"0", "1", "2", "3", "4", "5", "6", "7", "8", "9">>

\* str(n) for a natural number n.
RECURSIVE NatStr(_)
NatStr(n) == IF n < 10 THEN DigitStr[n + 1] ELSE NatStr(n \div 10) \o DigitStr[(n % 10) + 1]

\* round(n / d) to the nearest integer, ties to even (n >= 0, d > 0): what
\* the 'f' format does on a value that is exact in binary.
RoundHalfEven(n, d) ==
    LET q == n \div d
        r == n % d
    IN  IF 2 * r < d THEN q
        ELSE IF 2 * r > d THEN q + 1
        ELSE IF q % 2 = 0 THEN q ELSE q + 1

\* f"{x:.1f}" for x = n / unit: sign, integer part, one decimal.
FormatF1(n, unit) ==
    LET t == RoundHalfEven(Abs(n) * 10, unit)
    IN  (IF n < 0 THEN "-" ELSE "") \o NatStr(t \div 10) \o "." \o DigitStr[(t % 10) + 1]

\* f"{x:.0f}" for x = n / unit: sign, nearest integer.
FormatF0(n, unit) ==
    (IF n < 0 THEN "-" ELSE "") \o NatStr(RoundHalfEven(Abs(n), unit))

\* str(x) of a float x = h / 100: the shortest decimal that reads back as x,
\* never without a decimal point.
FloatStr(h) ==
    LET a == Abs(h)
        frac == a % 100
    IN  (IF h < 0 THEN "-" ELSE "") \o NatStr(a \div 100) \o "." \o
        (IF frac % 10 = 0 THEN DigitStr[(frac \div 10) + 1]
         ELSE DigitStr[(frac \div 10) + 1] \o DigitStr[(frac % 10) + 1])

\* A missing cell of a table read by pd.read_csv (an empty field).
NaN == "<NaN>"

isna(x) == x = NaN
notna(x) == x # NaN

\* What an f-string makes of a cell: a missing cell is a float NaN, "nan".
CellStr(x) == IF x = NaN THEN "nan" ELSE x

\* ====================================================== KPI cards (renderer)
\* dashboard.py: create_kpi_indicators, generate_kpi_cards_html

MaxMetricRows == 2

MetricNames == {"mrr", "Churn"}
upper(name) == IF name = "mrr" THEN "MRR" ELSE "CHURN"

\* delta is held in hundredths: -0.9, 0.0, 4.25
MetricDeltas == {-90, 0, 425}
MetricPrefixes == {NaN, "$"}
MetricSuffixes == {NaN, "M", "%"}

MetricRows ==
    [metric : MetricNames, value : {32}, delta : MetricDeltas,
     prefix : MetricPrefixes, suffix : MetricSuffixes]

UpRight == "(up-right arrow)"
DownRight == "(down-right arrow)"

\* create_kpi_indicators, the body of the loop: the figure of one row.  The
\* delta colour and symbol computed there are not given to the figure.
Indicator(row) ==
    [ title  |-> "<b>" \o upper(row.metric) \o "</b>",
      value  |-> row.value,
      prefix |-> IF isna(row.prefix) THEN "" ELSE row.prefix,
      suffix |-> IF isna(row.suffix) THEN "" ELSE row.suffix ]

create_kpi_indicators(m) == [i \in DOMAIN m |-> Indicator(m[i])]

\* generate_kpi_cards_html, lines 457-462: the delta text of one row.
DeltaTextRawCells(row, delta_symbol) ==
    delta_symbol \o " " \o CellStr(row.prefix) \o FloatStr(row.delta) \o CellStr(row.suffix)

DeltaText(row, delta_symbol) ==
    IF notna(row.suffix) /\ row.suffix = "M"
    THEN delta_symbol \o " " \o FormatF1(row.delta, 100) \o "%"
    ELSE LET prefix == IF notna(row.prefix) THEN row.prefix ELSE ""
             suffix == IF notna(row.suffix) THEN row.suffix ELSE ""
         IN  delta_symbol \o " " \o prefix \o FloatStr(row.delta) \o suffix

\* generate_kpi_cards_html, lines 453-454.
DeltaClassNonNegative(row) == IF row.delta >= 0 THEN "positive" ELSE "negative"
DeltaClass(row) == IF row.delta > 0 THEN "positive" ELSE "negative"
DeltaSymbol(row) == IF row.delta > 0 THEN UpRight ELSE DownRight

\* generate_kpi_cards_html, the body of the loop for Python index i - 1.
Card(m, figs, i) ==
    [ grid_row    |-> 1,
      grid_column |-> (i - 1) + 1,
      figure      |-> figs[i],
      plotlyjs    |-> IF i - 1 = 0 THEN "cdn" ELSE "no",
      delta_class |-> DeltaClass(m[i]),
      delta_text  |-> DeltaText(m[i], DeltaSymbol(m[i])) ]

generate_kpi_cards_html(m, figs) == [i \in 1..Len(m) |-> Card(m, figs, i)]

\* The metrics table the renderer is given, one row at a time.
KpiAddRow ==
    /\ indicator_figs = None
    /\ Len(metrics) < MaxMetricRows
    /\ \E row \in MetricRows : metrics' = Append(metrics, row)
    /\ UNCHANGED <<indicator_figs, cards_html, notKpi>>

\* create_dashboard_html, line 288.
KpiIndicators ==
    /\ indicator_figs = None
    /\ indicator_figs' = Some(create_kpi_indicators(metrics))
    /\ UNCHANGED <<metrics, cards_html, notKpi>>

\* create_dashboard_html, line 409.
KpiCards ==
    /\ indicator_figs # None
    /\ cards_html = None
    /\ cards_html' = Some(generate_kpi_cards_html(metrics, Get(indicator_figs)))
    /\ UNCHANGED <<metrics, indicator_figs, notKpi>>

KpiNext ==
    \/ KpiAddRow
    \/ KpiIndicators
    \/ KpiCards

KpiInit ==
    /\ MainInitIdle /\ KpiInitIdle /\ ArrInitIdle /\ FunnelInitIdle /\ ChannelInitIdle /\ GenInitIdle

SpecKpi == KpiInit /\ [][KpiNext]_vars

\* C7: for every KPI metrics table there is exactly one indicator figure and
\* exactly one KPI card per row, in row order, card i (counting from 0) in grid
\* row 1 and column i+1; a card is positive/upward when its row's delta is
\* greater than zero and negative/downward otherwise, a delta of zero included.
OneCardPerRow ==
    /\ indicator_figs # None =>
          /\ Len(Get(indicator_figs)) = Len(metrics)
          /\ \A k \in DOMAIN metrics :
                Get(indicator_figs)[k].title = "<b>" \o upper(metrics[k].metric) \o "</b>"
    /\ cards_html # None =>
          /\ DOMAIN Get(cards_html) = DOMAIN metrics
          /\ \A k \in DOMAIN metrics :
                LET card == Get(cards_html)[k]
                    up == metrics[k].delta > 0
                IN  /\ card.grid_row = 1
                    /\ card.grid_column = k
                    /\ card.figure = Get(indicator_figs)[k]
                    /\ card.delta_class = (IF up THEN "positive" ELSE "negative")
                    /\ StartsWith(card.delta_text, UpRight) <=> up
                    /\ StartsWith(card.delta_text, DownRight) <=> ~up

OneCardPerRowWitness ==
    /\ cards_html # None
    /\ Len(metrics) = 2
    /\ metrics[1].delta > 0
    /\ metrics[2].delta = 0
    /\ metrics[1].metric # metrics[2].metric
    /\ Get(cards_html)[2].delta_class = "negative"

\* The two renderings of a row's delta that the claims about
\* generate_kpi_cards_html speak of.
PercentStyle(row) ==
    DeltaSymbol(row) \o " " \o FormatF1(row.delta, 100) \o "%"

AffixStyle(row) ==
    DeltaSymbol(row) \o " " \o (IF row.prefix = NaN THEN "" ELSE row.prefix)
        \o FloatStr(row.delta) \o (IF row.suffix = NaN THEN "" ELSE row.suffix)

\* C8 as stated: the percent-style rendering is applied to exactly the rows
\* whose suffix is the percent sign; every other row renders prefix + raw delta
\* + suffix with a missing prefix or suffix as the empty string.
PercentStyleOnPercentSuffix ==
    cards_html # None =>
        \A k \in DOMAIN metrics :
            Get(cards_html)[k].delta_text =
                IF metrics[k].suffix = "%" THEN PercentStyle(metrics[k])
                ELSE AffixStyle(metrics[k])

\* C8 as amended: the percent-style rendering (delta with one decimal followed
\* by '%') is applied to exactly the rows whose suffix is "M"; every other row,
\* the rows whose suffix is the percent sign included, renders prefix + raw
\* delta + suffix, a missing (NaN) prefix or suffix being the empty string.
PercentStyleOnMSuffix ==
    cards_html # None =>
        \A k \in DOMAIN metrics :
            Get(cards_html)[k].delta_text =
                IF metrics[k].suffix = "M" THEN PercentStyle(metrics[k])
                ELSE AffixStyle(metrics[k])

PercentStyleWitness ==
    /\ cards_html # None
    /\ Len(metrics) = 2
    /\ metrics[1].suffix = "M" /\ metrics[1].prefix = "$" /\ metrics[1].delta = 425
    /\ metrics[2].suffix = "%" /\ metrics[2].prefix = NaN /\ metrics[2].delta = 425
    /\ Get(cards_html)[1].delta_text = UpRight \o " 4.2%"
    /\ Get(cards_html)[2].delta_text = UpRight \o " 4.25%"

\* ================================================== ARR waterfall (renderer)
\* dashboard.py: create_arr_waterfall

MaxArrRows == 2

Million == 1000000
Thousand == 1000

\* value is held in whole dollars.  The values chosen are those whose
\* quotient by 1,000,000 or by 1,000 is exact in binary where it is a tie.
ArrValues == {28000000, 1250000, 1000000, 999999, 0, -300500, -1000000, -1500000}

ArrKinds ==
    { <<"Starting ARR", "absolute">>, <<"Churn", "relative">>, <<"Ending ARR", "total">> }

ArrRows ==
    { [category |-> k[1], measure |-> k[2], value |-> v] : k \in ArrKinds, v \in ArrValues }

\* create_arr_waterfall, lines 138-141: the display text of one value.
FormatValueSigned(val) ==
    IF val >= Million
    THEN "$" \o FormatF1(val, Million) \o "M"
    ELSE "$" \o FormatF0(val, Thousand) \o "K"

FormatValue(val) ==
    IF Abs(val) >= Million
    THEN "$" \o FormatF1(val, Million) \o "M"
    ELSE "$" \o FormatF0(val, Thousand) \o "K"

\* create_arr_waterfall, lines 136-154: the data given to go.Waterfall.
create_arr_waterfall(a) ==
    [ x       |-> [i \in DOMAIN a |-> a[i].category],
      y       |-> [i \in DOMAIN a |-> a[i].value],
      measure |-> [i \in DOMAIN a |-> a[i].measure],
      text    |-> [i \in DOMAIN a |-> FormatValue(a[i].value)] ]

\* The ARR table the renderer is given, one row at a time.
ArrAddRow ==
    /\ waterfall = None
    /\ Len(arr) < MaxArrRows
    /\ \E row \in ArrRows : arr' = Append(arr, row)
    /\ UNCHANGED <<waterfall, notArr>>

\* create_dashboard_html, line 290.
ArrWaterfall ==
    /\ waterfall = None
    /\ waterfall' = Some(create_arr_waterfall(arr))
    /\ UNCHANGED <<arr, notArr>>

ArrNext ==
    \/ ArrAddRow
    \/ ArrWaterfall

ArrInit ==
    /\ MainInitIdle /\ KpiInitIdle /\ ArrInitIdle /\ FunnelInitIdle /\ ChannelInitIdle /\ GenInitIdle

SpecArr == ArrInit /\ [][ArrNext]_vars

\* The two shapes of a display text: '$X.XM' has a point, one digit and 'M'
\* at its end; '$XK' has no point and 'K' at its end.
IsMillionsText(t) ==
    /\ Len(t) >= 5
    /\ SubSeq(t, 1, 1) = "$"
    /\ SubSeq(t, Len(t), Len(t)) = "M"
    /\ SubSeq(t, Len(t) - 2, Len(t) - 2) = "."
    /\ \A i \in 1..Len(t) : SubSeq(t, i, i) = "." => i = Len(t) - 2

IsThousandsText(t) ==
    /\ Len(t) >= 3
    /\ SubSeq(t, 1, 1) = "$"
    /\ SubSeq(t, Len(t), Len(t)) = "K"
    /\ \A i \in 1..Len(t) : SubSeq(t, i, i) # "."

\* C10: every row gets exactly one display text, in row order; a value whose
\* magnitude is at least 1,000,000 is formatted in millions with one decimal
\* and every other value in whole thousands, so -1,500,000 is in millions.
TextPerRowByMagnitude ==
    waterfall # None =>
        LET w == Get(waterfall)
        IN  /\ Len(w.text) = Len(arr)
            /\ \A k \in DOMAIN arr :
                  LET v == arr[k].value
                  IN  /\ w.y[k] = v
                      /\ IF v >= Million \/ v <= -Million
                         THEN /\ IsMillionsText(w.text[k])
                              /\ w.text[k] = "$" \o FormatF1(v, Million) \o "M"
                         ELSE /\ IsThousandsText(w.text[k])
                              /\ w.text[k] = "$" \o FormatF0(v, Thousand) \o "K"

TextPerRowWitness ==
    /\ waterfall # None
    /\ Len(arr) = 2
    /\ arr[1].value = -1500000
    /\ arr[2].value = 999999
    /\ Get(waterfall).text = << "$-1.5M", "$1000K" >>

\* ================================================== funnel Sankey (renderer)
\* dashboard.py: create_funnel_sankey

MaxFunnelEdges == 3
MaxChainEdges == 11

\* Labels of the generated funnel, and a family of numbered labels for tables
\* with many distinct nodes.
FunnelLabels == {"MQL", "SQL", "Won"}
NodeName(n) == "node" \o NatStr(n)

Palette == << "#3498db", "#e74c3c", "#f39c12", "#2ecc71", "#9b59b6", "#34495e", "#1abc9c" >>
PaletteCopies == 3

\* seq * n for a Python list.
RECURSIVE Replicate(_, _)
Replicate(seq, n) == IF n = 0 THEN <<>> ELSE seq \o Replicate(seq, n - 1)

\* seq[:n] for a Python list: no more than the list holds.
Take(seq, n) == SubSeq(seq, 1, IF n < Len(seq) THEN n ELSE Len(seq))

\* funnel[["source", "target"]].values.ravel(): row by row, source then target.
RECURSIVE Ravel(_)
Ravel(f) == IF f = <<>> THEN <<>> ELSE <<Head(f).source, Head(f).target>> \o Ravel(Tail(f))

\* pd.unique: the distinct values in order of first appearance.
RECURSIVE UniqueFrom(_, _)
UniqueFrom(acc, seq) ==
    IF seq = <<>> THEN acc
    ELSE UniqueFrom(IF Head(seq) \in Range(acc) THEN acc ELSE Append(acc, Head(seq)),
                    Tail(seq))

KeepAll(seq) == seq

Unique(seq) == UniqueFrom(<<>>, seq)

\* list.index(x): the 0-based position of the first element equal to x.
Index(list, x) ==
    (CHOOSE i \in DOMAIN list : list[i] = x /\ \A j \in DOMAIN list : list[j] = x => i <= j) - 1

\* create_funnel_sankey, lines 186-209: the data given to go.Sankey.
create_funnel_sankey(f) ==
    LET labels == Unique(Ravel(f))
        node_colors == Replicate(Palette, PaletteCopies)
    IN  [ label  |-> labels,
          color  |-> Take(node_colors, Len(labels)),
          source |-> [i \in DOMAIN f |-> Index(labels, f[i].source)],
          target |-> [i \in DOMAIN f |-> Index(labels, f[i].target)],
          value  |-> [i \in DOMAIN f |-> f[i].value] ]

\* The funnel table the renderer is given, one edge at a time: edges between
\* the labels of FunnelLabels ...
FunnelAddEdge ==
    /\ sankey = None
    /\ Len(funnel) < MaxFunnelEdges
    /\ Range(Ravel(funnel)) \subseteq FunnelLabels
    /\ \E s \in FunnelLabels, t \in FunnelLabels :
          funnel' = Append(funnel, [source |-> s, target |-> t, value |-> 100])
    /\ UNCHANGED <<sankey, notFunnel>>

\* ... or edges that each bring new labels: from the last target or from a
\* new label, to a new label.
FunnelAddChainEdge ==
    /\ sankey = None
    /\ Len(funnel) < MaxChainEdges
    /\ Range(Ravel(funnel)) \cap FunnelLabels = {}
    /\ LET n == Cardinality(Range(Ravel(funnel)))
       IN  \/ funnel' = Append(funnel, [source |-> NodeName(n + 1),
                                        target |-> NodeName(n + 2), value |-> 100])
           \/ /\ funnel # <<>>
              /\ funnel' = Append(funnel, [source |-> funnel[Len(funnel)].target,
                                           target |-> NodeName(n + 1), value |-> 100])
    /\ UNCHANGED <<sankey, notFunnel>>

\* create_dashboard_html, line 291.
FunnelSankey ==
    /\ sankey = None
    /\ sankey' = Some(create_funnel_sankey(funnel))
    /\ UNCHANGED <<funnel, notFunnel>>

FunnelNext ==
    \/ FunnelAddEdge
    \/ FunnelAddChainEdge
    \/ FunnelSankey

FunnelInit ==
    /\ MainInitIdle /\ KpiInitIdle /\ ArrInitIdle /\ FunnelInitIdle /\ ChannelInitIdle /\ GenInitIdle

SpecFunnel == FunnelInit /\ [][FunnelNext]_vars

\* Position (1-based) at which a label is first seen when the edges are read
\* in row order, source before target.
FirstSeen(f, x) ==
    LET cell(p) == IF p % 2 = 1 THEN f[(p + 1) \div 2].source ELSE f[p \div 2].target
        at == {p \in 1..(2 * Len(f)) : cell(p) = x}
    IN  CHOOSE p \in at : \A q \in at : p <= q

\* C2: the node label list is the duplicate-free union of all source and
\* target labels in first-seen order; every edge's source and target index is
\* a valid position of the list whose label is the edge's own string; a label
\* that occurs several times is mapped to exactly one index.
NodeIndexMapping ==
    sankey # None =>
        LET s == Get(sankey)
            n == Len(s.label)
            seen == [i \in 1..n |-> FirstSeen(funnel, s.label[i])]
        IN  /\ \A i, j \in 1..n : s.label[i] = s.label[j] => i = j
            /\ Range(s.label) = {funnel[k].source : k \in DOMAIN funnel}
                                    \cup {funnel[k].target : k \in DOMAIN funnel}
            /\ \A i, j \in 1..n :
                  i < j => seen[i] < seen[j]
            /\ Len(s.source) = Len(funnel) /\ Len(s.target) = Len(funnel)
            /\ \A k \in DOMAIN funnel :
                  /\ s.source[k] \in 0..(n - 1)
                  /\ s.target[k] \in 0..(n - 1)
                  /\ s.label[s.source[k] + 1] = funnel[k].source
                  /\ s.label[s.target[k] + 1] = funnel[k].target
            /\ \A k, l \in DOMAIN funnel :
                  /\ funnel[k].source = funnel[l].source => s.source[k] = s.source[l]
                  /\ funnel[k].target = funnel[l].target => s.target[k] = s.target[l]
                  /\ funnel[k].source = funnel[l].target => s.source[k] = s.target[l]

NodeIndexMappingWitness ==
    /\ sankey # None
    /\ Len(funnel) = 3
    /\ funnel[1].source = "Won" /\ funnel[1].target = "MQL"
    /\ funnel[2].source = "MQL" /\ funnel[2].target = "SQL"
    /\ funnel[3].source = "MQL" /\ funnel[3].target = "MQL"
    /\ Get(sankey).label = <<"Won", "MQL", "SQL">>
    /\ Get(sankey).source = <<0, 1, 1>>
    /\ Get(sankey).target = <<1, 2, 1>>

\* C9: every node receives a colour: the list of node colours is as long as
\* the list of node labels, node i (counting from 0) coloured by palette entry
\* i mod 7, however many distinct labels the table has.
EveryNodeColoured ==
    sankey # None =>
        LET s == Get(sankey)
        IN  /\ Len(s.color) = Len(s.label)
            /\ \A i \in DOMAIN s.color : s.color[i] = Palette[((i - 1) % Len(Palette)) + 1]

\* ================================================================ generator
\* data_gen.py.  Numbers that the program holds as floats are held here as
\* integers in a fixed unit, named with each table.

\* numpy's global generator, as a linear congruential generator on RngMod
\* states: np.random.seed sets the state, every draw advances it and yields it.
RngMod == 8

seed(s) == s % RngMod
NextRng(r) == (5 * r + 3) % RngMod

\* The outputs of n successive draws from state r; the last is the new state.
RECURSIVE DrawSeq(_, _)
DrawSeq(r, n) ==
    IF n = 0 THEN <<>>
    ELSE IF n = 1 THEN <<NextRng(r)>>
    ELSE LET first == DrawSeq(r, n \div 2)
         IN  first \o DrawSeq(first[Len(first)], n - n \div 2)

StateAfter(r, draws) == IF draws = <<>> THEN r ELSE draws[Len(draws)]

\* np.random.uniform(low, high) and np.random.randint(low, high) from the
\* generator output u: low + (high - low) * u / RngMod, in [low, high).
uniform(low, high, u) == low + ((high - low) * u) \div RngMod
randint(low, high, u) == low + ((high - low) * u) \div RngMod

\* np.random.normal(scale=...) from the generator output u, in thousandths:
\* a value between -3 and +3 scales.
normal(scale, u) == (scale * 6000 * u) \div RngMod - scale * 3000

\* 1000 * sin of an angle given in tenths of a degree (Bhaskara's rational
\* approximation on each half turn; exact at 0, 90, 180, 270 degrees).
sin(dd) ==
    LET a == dd % 3600
        h == a % 1800
        P == h * (1800 - h)
        v == (2000 * P) \div ((4050000 - P) \div 2)
    IN  IF a < 1800 THEN v ELSE -v

\* One radian in tenths of a degree, and np.linspace(0, turns * pi, n)[j] in
\* tenths of a degree.
Radian == 573
linspace_pi(turns, n, j) == (turns * 1800 * j) \div (n - 1)

\* np.clip(x, lo, hi), with None for a missing bound.
clip_low_as_high(x, lo) == IF x > lo THEN lo ELSE x
clip_low(x, lo) == IF x < lo THEN lo ELSE x
clip(x, lo, hi) == IF x < lo THEN lo ELSE IF x > hi THEN hi ELSE x

\* ndarray.astype(int) of x thousandths: truncation toward zero.
astype_int(x) == IF x < 0 THEN -((-x) \div 1000) ELSE x \div 1000

\* pd.date_range(first, last, freq="MS"): the month starts from first to last.
date_range(y0, m0, y1, m1) ==
    [j \in 1..((y1 - y0) * 12 + (m1 - m0) + 1) |->
        [year |-> y0 + (m0 - 1 + j - 1) \div 12, month |-> ((m0 - 1 + j - 1) % 12) + 1]]

\* ---- generate_metrics: value and delta in hundredths.
generate_metrics(r) ==
    [ table |->
        << [metric |-> "Monthly Recurring Revenue", value |-> 320, delta |-> 420, prefix |-> "$", suffix |-> "M"],
           [metric |-> "CAC Payback Period", value |-> 1420, delta |-> -90, prefix |-> "", suffix |-> "mo"],
           [metric |-> "Net Revenue Retention", value |-> 11200, delta |-> 450, prefix |-> "", suffix |-> "%"],
           [metric |-> "Monthly Churn Rate", value |-> 420, delta |-> -60, prefix |-> "", suffix |-> "%"],
           [metric |-> "LTV:CAC Ratio", value |-> 480, delta |-> 50, prefix |-> "", suffix |-> "x"] >>,
      rng |-> r ]

\* ---- generate_funnel_data
Flow(s, t, v) == [source |-> s, target |-> t, value |-> v]

generate_funnel_data(r) ==
    [ table |->
        << Flow("Organic Search", "MQL", 5000), Flow("Paid Search", "MQL", 4000),
           Flow("Content Marketing", "MQL", 3000), Flow("Social Media", "MQL", 3500),
           Flow("Direct", "MQL", 4500), Flow("Email Marketing", "MQL", 3200),
           Flow("Referrals", "MQL", 2800),
           Flow("MQL", "SQL", 6000), Flow("MQL", "Unqualified", 2500),
           Flow("SQL", "Opportunity", 1800), Flow("SQL", "No Opportunity", 2000),
           Flow("SQL", "Lost", 1500), Flow("SQL", "Won", 700) >>,
      rng |-> r ]

\* ---- generate_arr_movement: values in whole dollars.
ArrSeed == 123
starting_arr == 28000000

ArrRow(c, m, v) == [category |-> c, measure |-> m, value |-> v]

\* Lines 67-81 on the four generator outputs u[1..4].
arr_movement_no_churn(u) ==
    LET new_business == uniform(1500000, 2500000, u[1])
        expansion == uniform(800000, 1500000, u[2])
        contraction == -uniform(200000, 600000, u[3])
        churn == -uniform(100000, 500000, u[4])
        ending_arr == starting_arr + new_business + expansion + contraction
    IN  << ArrRow("Starting ARR", "absolute", starting_arr),
           ArrRow("New Business", "relative", new_business),
           ArrRow("Expansion", "relative", expansion),
           ArrRow("Contraction", "relative", contraction),
           ArrRow("Churn", "relative", churn),
           ArrRow("Ending ARR", "total", ending_arr) >>

arr_movement(u) ==
    LET new_business == uniform(1500000, 2500000, u[1])
        expansion == uniform(800000, 1500000, u[2])
        contraction == -uniform(200000, 600000, u[3])
        churn == -uniform(100000, 500000, u[4])
        ending_arr == starting_arr + new_business + expansion + contraction + churn
    IN  << ArrRow("Starting ARR", "absolute", starting_arr),
           ArrRow("New Business", "relative", new_business),
           ArrRow("Expansion", "relative", expansion),
           ArrRow("Contraction", "relative", contraction),
           ArrRow("Churn", "relative", churn),
           ArrRow("Ending ARR", "total", ending_arr) >>

generate_arr_movement_unseeded(r) ==
    LET u == DrawSeq(r, 4)
    IN  [table |-> arr_movement(u), rng |-> StateAfter(r, u)]

generate_arr_movement(r) ==
    LET u == DrawSeq(seed(ArrSeed), 4)
    IN  [table |-> arr_movement(u), rng |-> StateAfter(seed(ArrSeed), u)]

\* ---- generate_channel_acquisition: customers in thousandths until astype(int).
ChannelSeed == 42

channels ==
    << "Direct", "Referrals", "Email Marketing", "Content Marketing", "Social Media",
       "Paid Search", "Organic Search" >>

channel_dates == date_range(2022, 3, 2024, 11)

\* np.linspace(200, 800, n)[j]
base(n, j) == 200000 + (600000 * j) \div (n - 1)

\* Lines 46-55 for channel i (from 0) at date j (from 0) of n.
seasonal(i, n, j) == (50 * sin(linspace_pi(4, n, j) + i * Radian))
trend(i, n, j) ==
    LET t == base(n, j) + (base(n, j) * sin(linspace_pi(3, n, j) + i * Radian)) \div 10000
    IN  IF channels[i + 1] = "Organic Search" THEN (t * 13) \div 10
        ELSE IF channels[i + 1] = "Paid Search" THEN (t * 11) \div 10
        ELSE IF channels[i + 1] = "Social Media" THEN (t * 8) \div 10
        ELSE t

\* Line 57: np.clip(trend + seasonal + noise, 50, None).astype(int)
channel_value(t, s, noise) == astype_int(clip_low(t + s + noise, 50000))

generate_channel_acquisition(r) ==
    LET n == Len(channel_dates)
        u == DrawSeq(seed(ChannelSeed), Len(channels) * n)
    IN  [ table |->
            [ date |-> channel_dates,
              columns |-> [i \in DOMAIN channels |->
                  [ name |-> channels[i],
                    values |-> [j \in 1..n |->
                        channel_value(trend(i - 1, n, j - 1), seasonal(i - 1, n, j - 1),
                                      normal(50, u[(i - 1) * n + j]))] ]] ],
          rng |-> StateAfter(seed(ChannelSeed), u) ]

\* ---- generate_cohort_data: retention in thousandths of a percent.
CohortSeed == 456
num_cohorts == 12
months == 12
EarlyMonths == 6

RECURSIVE CumSum(_, _)
CumSum(d, m) == IF m = 0 THEN 0 ELSE d[m] + CumSum(d, m - 1)

\* Lines 133-139 for one cohort: the retention row from its declines.
cohort_retention_clip_once(declines, cohort_idx) ==
    [m \in 1..months |->
        clip(100000 - CumSum(declines, m), 45000, 100000)
            + 2 * sin(linspace_pi(2, months, m - 1) + cohort_idx * Radian)]

cohort_retention(declines, cohort_idx) ==
    [m \in 1..months |->
        clip(clip(100000 - CumSum(declines, m), 45000, 100000)
                + 2 * sin(linspace_pi(2, months, m - 1) + cohort_idx * Radian),
             45000, 100000)]

\* Lines 126-130: the declines of one cohort from its generator outputs.
cohort_declines(u) ==
    [m \in 1..months |->
        IF m <= EarlyMonths THEN uniform(2000, 6000, u[m]) ELSE uniform(1000, 4000, u[m])]

cohort_name(c) == "2023-" \o (IF c < 10 THEN "0" ELSE "") \o NatStr(c)

generate_cohort_data(r) ==
    LET u == DrawSeq(seed(CohortSeed), num_cohorts * months)
    IN  [ table |->
            [c \in 1..num_cohorts |->
                [ cohort |-> cohort_name(c),
                  M |-> cohort_retention(
                          cohort_declines(SubSeq(u, (c - 1) * months + 1, c * months)),
                          c - 1) ]],
          rng |-> StateAfter(seed(CohortSeed), u) ]

\* ---- generate_additional_metrics: rates in ten-thousandths, money in dollars.
AdditionalSeed == 789

additional_dates == date_range(2022, 1, 2024, 11)

generate_additional_metrics(r) ==
    LET n == Len(additional_dates)
        u == DrawSeq(seed(AdditionalSeed), 5 * n)
    IN  [ table |->
            [ date |-> additional_dates,
              active_customers |-> [j \in 1..n |-> randint(8000, 12000, u[j])],
              trial_signups |-> [j \in 1..n |-> randint(500, 800, u[n + j])],
              trial_conversion_rate |-> [j \in 1..n |-> uniform(1500, 2500, u[2 * n + j])],
              average_deal_size |-> [j \in 1..n |-> uniform(15000, 25000, u[3 * n + j])],
              sales_cycle_days |-> [j \in 1..n |-> randint(45, 90, u[4 * n + j])] ],
          rng |-> StateAfter(seed(AdditionalSeed), u) ]

\* ---- the generator as a program: any of its functions may be called, from
\* any state of the global generator, at most MaxGenCalls calls in a run.
MaxGenCalls == 3

NoData == [f \in Range(DataFiles) |-> None]

\* DataFrame.to_csv(filename): the table replaces what the file held.
to_csv(d, file, table) == [d EXCEPT ![file] = Some(table)]

\* One call of each generate_* function: the table goes to the function's file
\* and the global generator is left where the function left it.
GenMetrics ==
    /\ pc < MaxGenCalls
    /\ pc' = pc + 1
    /\ LET g == generate_metrics(rng)
       IN  /\ data' = to_csv(data, DataFiles[1], g.table)
           /\ rng' = g.rng
    /\ UNCHANGED <<gen, fs, stdout, calls, writes, drifted, html, html0, kpiVars, arrVars, funnelVars, channelVars>>

GenChannel ==
    /\ pc < MaxGenCalls
    /\ pc' = pc + 1
    /\ LET g == generate_channel_acquisition(rng)
       IN  /\ data' = to_csv(data, DataFiles[2], g.table)
           /\ rng' = g.rng
    /\ UNCHANGED <<gen, fs, stdout, calls, writes, drifted, html, html0, kpiVars, arrVars, funnelVars, channelVars>>

GenArr ==
    /\ pc < MaxGenCalls
    /\ pc' = pc + 1
    /\ LET g == generate_arr_movement(rng)
       IN  /\ data' = to_csv(data, DataFiles[3], g.table)
           /\ rng' = g.rng
    /\ UNCHANGED <<gen, fs, stdout, calls, writes, drifted, html, html0, kpiVars, arrVars, funnelVars, channelVars>>

GenFunnel ==
    /\ pc < MaxGenCalls
    /\ pc' = pc + 1
    /\ LET g == generate_funnel_data(rng)
       IN  /\ data' = to_csv(data, DataFiles[4], g.table)
           /\ rng' = g.rng
    /\ UNCHANGED <<gen, fs, stdout, calls, writes, drifted, html, html0, kpiVars, arrVars, funnelVars, channelVars>>

GenCohort ==
    /\ pc < MaxGenCalls
    /\ pc' = pc + 1
    /\ LET g == generate_cohort_data(rng)
       IN  /\ data' = to_csv(data, DataFiles[5], g.table)
           /\ rng' = g.rng
    /\ UNCHANGED <<gen, fs, stdout, calls, writes, drifted, html, html0, kpiVars, arrVars, funnelVars, channelVars>>

GenAdditional ==
    /\ pc < MaxGenCalls
    /\ pc' = pc + 1
    /\ LET g == generate_additional_metrics(rng)
       IN  /\ data' = to_csv(data, DataFiles[6], g.table)
           /\ rng' = g.rng
    /\ UNCHANGED <<gen, fs, stdout, calls, writes, drifted, html, html0, kpiVars, arrVars, funnelVars, channelVars>>

\* main(), lines 173-178: the six functions in order.
GenMain ==
    /\ pc < MaxGenCalls
    /\ pc' = pc + 1
    /\ LET g1 == generate_metrics(rng)
           g2 == generate_channel_acquisition(g1.rng)
           g3 == generate_arr_movement(g2.rng)
           g4 == generate_funnel_data(g3.rng)
           g5 == generate_cohort_data(g4.rng)
           g6 == generate_additional_metrics(g5.rng)
       IN  /\ data' = [ f \in Range(DataFiles) |->
                          IF f = DataFiles[1] THEN Some(g1.table)
                          ELSE IF f = DataFiles[2] THEN Some(g2.table)
                          ELSE IF f = DataFiles[3] THEN Some(g3.table)
                          ELSE IF f = DataFiles[4] THEN Some(g4.table)
                          ELSE IF f = DataFiles[5] THEN Some(g5.table)
                          ELSE Some(g6.table) ]
           /\ rng' = g6.rng
    /\ UNCHANGED <<gen, fs, stdout, calls, writes, drifted, html, html0, kpiVars, arrVars, funnelVars, channelVars>>

GenNext ==
    \/ GenMetrics
    \/ GenChannel
    \/ GenArr
    \/ GenFunnel
    \/ GenCohort
    \/ GenAdditional
    \/ GenMain

GenInit ==
    /\ fs = {} /\ stdout = <<>> /\ calls = <<>> /\ writes = 0
    /\ drifted = {} /\ html = None /\ html0 = None
    /\ pc = 0
    /\ KpiInitIdle /\ ArrInitIdle /\ FunnelInitIdle /\ ChannelInitIdle
    /\ rng \in 0..(RngMod - 1)
    /\ data = NoData
    /\ gen = None

SpecGen == GenInit /\ [][GenNext]_vars

\* C3: re-running the generator yields identical output for all six tables:
\* a table that was written is written again unchanged by every later call,
\* whatever functions were called in between and whatever state the global
\* random number generator was in.
RerunWritesSameTables ==
    [][ \A f \in Range(DataFiles) : data[f] # None => data'[f] = data[f] ]_vars

RerunWitness ==
    /\ pc = 3
    /\ data[DataFiles[3]] # None
    /\ data[DataFiles[5]] # None
    /\ \A f \in Range(DataFiles) \ {DataFiles[3], DataFiles[5]} : data[f] = None
    /\ rng = generate_arr_movement(rng).rng

\* ---- the generator's computations on free draws: one call of a computation
\* on any generator outputs (or any terms), its result kept in gen.

\* The values a decline may take: the ends of uniform(2, 6) and uniform(1, 4).
EarlyDeclines == {2000, 6000}
LaterDeclines == {1000, 4000}

\* Trend, seasonal and noise terms of a channel cell, in thousandths.
TrendTerms == {-100000, 0, 40000, 50000, 200500, 1144000}
SeasonalTerms == {-50000, -1, 0, 999, 50000}
NoiseTerms == {-2000000, -150000, -500, 0, 150000}

FreeArr ==
    /\ gen = None
    /\ \E u \in [1..4 -> 0..(RngMod - 1)] :
          gen' = Some([fn |-> "generate_arr_movement", table |-> arr_movement(u)])
    /\ UNCHANGED <<rng, data, notGen>>

FreeCohort ==
    /\ gen = None
    /\ \E cohort_idx \in 0..(num_cohorts - 1),
          early \in [1..EarlyMonths -> EarlyDeclines],
          later \in [1..(months - EarlyMonths) -> LaterDeclines] :
          gen' = Some([fn |-> "generate_cohort_data",
                       cohort_idx |-> cohort_idx,
                       declines |-> early \o later,
                       retention |-> cohort_retention(early \o later, cohort_idx)])
    /\ UNCHANGED <<rng, data, notGen>>

FreeChannel ==
    /\ gen = None
    /\ \E t \in TrendTerms, s \in SeasonalTerms, noise \in NoiseTerms :
          gen' = Some([fn |-> "generate_channel_acquisition",
                       sum |-> t + s + noise,
                       value |-> channel_value(t, s, noise)])
    /\ UNCHANGED <<rng, data, notGen>>

FreeNext ==
    \/ FreeArr
    \/ FreeCohort
    \/ FreeChannel

FreeInit ==
    /\ MainInitIdle /\ KpiInitIdle /\ ArrInitIdle /\ FunnelInitIdle /\ ChannelInitIdle /\ GenInitIdle

SpecGenFree == FreeInit /\ [][FreeNext]_vars

Made(fn) == gen # None /\ Get(gen).fn = fn

\* C4: the ARR movement table has exactly six rows in this order: one
\* 'absolute' starting row, four 'relative' rows (new business, expansion,
\* contraction, churn) and one 'total' ending row; the ending value equals the
\* starting value plus the sum of the four relative values, for every value
\* the random draws can take.
ArrEndingIsSum ==
    Made("generate_arr_movement") =>
        LET rows == Get(gen).table
        IN  /\ Len(rows) = 6
            /\ [i \in 1..6 |-> rows[i].measure]
                 = <<"absolute", "relative", "relative", "relative", "relative", "total">>
            /\ [i \in 1..6 |-> rows[i].category]
                 = <<"Starting ARR", "New Business", "Expansion", "Contraction", "Churn", "Ending ARR">>
            /\ rows[6].value
                 = rows[1].value + SumSeq([i \in 1..4 |-> rows[i + 1].value])

ArrEndingWitness ==
    /\ Made("generate_arr_movement")
    /\ Get(gen).table[2].value > 1500000
    /\ Get(gen).table[4].value < -200000
    /\ Get(gen).table[5].value < -100000
    /\ Get(gen).table[6].value # Get(gen).table[1].value

\* C5: every cell of the cohort retention table lies in [45, 100], for every
\* cohort and every month, also after the seasonal adjustment that is added
\* following the first clamp.
CohortCellsInRange ==
    Made("generate_cohort_data") =>
        \A m \in DOMAIN Get(gen).retention :
            /\ Get(gen).retention[m] >= 45000
            /\ Get(gen).retention[m] <= 100000

\* A row with a late month that was at the floor after the first clamp and was
\* taken below it by the seasonal adjustment.
CohortCellsWitness ==
    /\ Made("generate_cohort_data")
    /\ Len(Get(gen).retention) = months
    /\ 100000 - CumSum(Get(gen).declines, months - 1) < 45000
    /\ sin(linspace_pi(2, months, months - 2) + Get(gen).cohort_idx * Radian) < 0
    /\ Get(gen).retention[months - 1] = 45000

\* C6: every channel value is an integer that is at least 50, whatever the
\* trend, seasonal and noise terms are: the floor is applied before the
\* conversion to integer, which does not take a value below 50.
ChannelValueAtLeast50 ==
    Made("generate_channel_acquisition") =>
        LET g == Get(gen)
            floored == IF g.sum < 50000 THEN 50000 ELSE g.sum
        IN  /\ g.value \in Int
            /\ g.value >= 50
            /\ g.value * 1000 <= floored
            /\ floored < (g.value + 1) * 1000

ChannelValueWitness ==
    /\ Made("generate_channel_acquisition")
    /\ Get(gen).sum < 0
    /\ Get(gen).value = 50

\* ============================================ channel area chart (renderer)
\* dashboard.py: create_channel_acquisition_chart

MaxDates == 9
MaxChannelCols == 8

\* Line 72.
N == 2

\* Line 78.
colors == << "#3498db", "#e74c3c", "#f39c12", "#2ecc71", "#9b59b6", "#34495e", "#1abc9c" >>

\* seq[start:stop:step] of Python for a step above zero; start and stop are
\* positions from 0, a negative one counting from the end.
SliceBound(i, n) == IF i < 0 THEN (IF i + n < 0 THEN 0 ELSE i + n) ELSE (IF i > n THEN n ELSE i)

PySlice(seq, start, stop, step) ==
    LET lo == SliceBound(start, Len(seq))
        hi == SliceBound(stop, Len(seq))
        count == IF hi > lo THEN (hi - lo + step - 1) \div step ELSE 0
    IN  [k \in 1..count |-> seq[lo + (k - 1) * step + 1]]

\* Line 73.
tick_dates_always_trimmed(dates) == PySlice(dates, N, -N, 3)

tick_dates(dates) ==
    IF Len(dates) > 2 * N THEN PySlice(dates, N, -N, 3) ELSE PySlice(dates, 0, Len(dates), 3)

\* d.strftime("%b %Y")
MonthAbbr == << "Jan", "Feb", "Mar", "Apr", "May", "Jun",
                "Jul", "Aug", "Sep", "Oct", "Nov", "Dec" >>
strftime(d) == MonthAbbr[d.month] \o " " \o NatStr(d.year)

\* Lines 80-92: the traces, one per column that is not the date column.
channel_traces(ch) ==
    LET cols == SelectSeq(ch.columns, LAMBDA c : c # "date")
    IN  [i \in DOMAIN cols |->
            [ x |-> ch.date,
              y |-> cols[i],
              name |-> cols[i],
              stackgroup |-> "one",
              fillcolor |-> colors[((i - 1) % Len(colors)) + 1] ]]

\* create_channel_acquisition_chart, lines 69-100; channel["date"] raises
\* KeyError on a table without a date column.
create_channel_acquisition_chart(ch) ==
    IF "date" \notin Range(ch.columns)
    THEN [raised |-> "KeyError", traces |-> <<>>, tickvals |-> <<>>, ticktext |-> <<>>]
    ELSE [ raised |-> "",
           traces |-> channel_traces(ch),
           tickvals |-> tick_dates(ch.date),
           ticktext |-> [k \in DOMAIN tick_dates(ch.date) |-> strftime(tick_dates(ch.date)[k])] ]

\* The names of the channel columns of a table: those of the generator, then
\* numbered ones.
ChannelName(k) == IF k <= Len(channels) THEN channels[k] ELSE "Channel " \o NatStr(k)

\* The channel table the renderer is given: one more month ...
ChannelAddDate ==
    /\ area_fig = None
    /\ Len(channel.date) < MaxDates
    /\ channel' = [channel EXCEPT !.date = date_range(2022, 3, 2022, 3 + Len(channel.date))]
    /\ UNCHANGED <<area_fig, notChannel>>

\* ... or one more column: the date column, or the next channel.
ChannelAddColumn ==
    /\ area_fig = None
    /\ LET k == Len(SelectSeq(channel.columns, LAMBDA c : c # "date"))
       IN  \/ /\ "date" \notin Range(channel.columns)
              /\ channel' = [channel EXCEPT !.columns = Append(@, "date")]
           \/ /\ k < MaxChannelCols
              /\ channel' = [channel EXCEPT !.columns = Append(@, ChannelName(k + 1))]
    /\ UNCHANGED <<area_fig, notChannel>>

\* create_dashboard_html, line 289.
ChannelChart ==
    /\ area_fig = None
    /\ area_fig' = Some(create_channel_acquisition_chart(channel))
    /\ UNCHANGED <<channel, notChannel>>

ChannelNext ==
    \/ ChannelAddDate
    \/ ChannelAddColumn
    \/ ChannelChart

ChannelInit ==
    /\ MainInitIdle /\ KpiInitIdle /\ ArrInitIdle /\ FunnelInitIdle /\ ChannelInitIdle /\ GenInitIdle

SpecChannel == ChannelInit /\ [][ChannelNext]_vars

\* C11: for a date series of length n, the tick dates are the dates at
\* positions 0, 3, 6, ... when n is at most 4, and the dates at positions
\* 2, 5, 8, ... strictly below n-2 when n is greater than 4; the chart has
\* exactly one trace per column other than the date column, in column order,
\* trace i (counting from 0) coloured by palette entry i mod 7.
TicksAndTraces ==
    (area_fig # None /\ Get(area_fig).raised = "") =>
        LET fig == Get(area_fig)
            n == Len(channel.date)
            first == IF n <= 4 THEN 0 ELSE 2
            limit == IF n <= 4 THEN n ELSE n - 2
            positions == {p \in 0..(n - 1) : p >= first /\ p < limit /\ (p - first) % 3 = 0}
            before(c) == Cardinality({d \in 1..(c - 1) : channel.columns[d] = "date"})
        IN  /\ Len(fig.tickvals) = Cardinality(positions)
            /\ \A k \in DOMAIN fig.tickvals :
                  /\ first + 3 * (k - 1) \in positions
                  /\ fig.tickvals[k] = channel.date[first + 3 * (k - 1) + 1]
            /\ Len(fig.traces) = Len(channel.columns) - 1
            /\ \A c \in DOMAIN channel.columns :
                  channel.columns[c] # "date" =>
                      LET i == c - before(c)
                      IN  /\ fig.traces[i].name = channel.columns[c]
                          /\ fig.traces[i].y = channel.columns[c]
                          /\ fig.traces[i].fillcolor = colors[((i - 1) % 7) + 1]

TicksAndTracesWitness ==
    /\ area_fig # None
    /\ Get(area_fig).raised = ""
    /\ Len(channel.date) = 9
    /\ Get(area_fig).ticktext = <<"May 2022", "Aug 2022">>
    /\ Len(Get(area_fig).traces) = 8
    /\ Get(area_fig).traces[8].fillcolor = colors[1]
    /\ channel.columns[2] = "date"

\* ====================================================== the output file
\* dashboard.py: create_dashboard_html, main

\* C12: in a renderer run the output file is opened for writing only after
\* all six tables were loaded and all five chart builders and the KPI card
\* HTML were built without error, and it is written exactly once; when a
\* builder fails on a schema-drifted table the error leaves main (no later
\* step of the run, no success line) with the output file as it was before the
\* run; and no step of the renderer changes any of the six data files.
OutputOpenedAfterBuilders ==
    [][ /\ MainOpen =>
              /\ \A i \in DOMAIN DataFiles : DataFiles[i] \in fs
              /\ SubSeq(calls, 1, 2) = <<"load_data", "ensure_output_directory">>
              /\ SubSeq(calls, 3, Len(calls)) = Builders
              /\ \A k \in DOMAIN Builders : BuilderInputs[k] \notin drifted
              /\ writes = 0
        /\ MainFinish =>
              /\ writes = 1
              /\ html = Some(DashboardPage)
              /\ Cardinality({k \in DOMAIN calls : calls[k] = "open_output"}) = 1
        /\ writes' <= 1
        /\ (MainBuild /\ BuilderFails(calls'[Len(calls')])) => pc' = "raised"
        /\ pc' = "raised" =>
              /\ html' = html0'
              /\ (OutputFile \in fs') = (html0' # None)
              /\ writes' = 0
        /\ pc = "raised" =>
              /\ pc' = "idle"
              /\ UNCHANGED <<fs, stdout, calls, writes, html>>
        /\ pc # "idle" =>
              /\ drifted' = drifted
              /\ \A i \in DOMAIN DataFiles : (DataFiles[i] \in fs') = (DataFiles[i] \in fs) ]_vars

OutputOpenedAfterBuildersWitness ==
    /\ pc = "raised"
    /\ html = Some(DashboardPage)
    /\ OutputFile \in fs
    /\ calls[Len(calls)] = "create_funnel_sankey"
    /\ drifted = {"data/funnel_data.csv"}
    /\ "Dashboard created successfully!" \notin Range(stdout)

====
